---- MODULE Spec2Model ----
(***************************************************************************)
(* Model of the week2 movie recommender: the MovieLens loader of data.js,  *)
(* the matrix-factorisation trainer and predictor of script.js, and the    *)
(* cosine-similarity recommender of script.js.                             *)
(*                                                                         *)
(* Encoding of JavaScript values:                                          *)
(*   - a string is a sequence of one-character strings;                    *)
(*   - a text is the sequence of its lines (text.split('\n'));             *)
(*   - a number is an integer; the value NaN is the integer NaN below and  *)
(*     every operator on numbers treats it the way JavaScript does;        *)
(*   - an array is a sequence, read with the 0-based At;                   *)
(*   - an object used as a table is a function whose DOMAIN is its keys.   *)
(***************************************************************************)
EXTENDS Integers, Sequences, FiniteSets, TLC

\* ------------------------------------------------------------------ bounds
MaxItemLines == 2
MaxRatingLines == 2
NumModelIds == 2
MaxTimers == 1
MaxMovies == 4

\* ------------------------------------------------------- JavaScript values
NaN == -999

IsNaN(x) == x = NaN

\* a === b on numbers: NaN is not equal to anything, itself included
StrictEq(a, b) == ~IsNaN(a) /\ ~IsNaN(b) /\ a = b

At(arr, i) == arr[i + 1]

Digits == {"0", "1", "2", "3", "4", "5", "6", "7", "8", "9"}

DigitVal(c) ==
  CASE c = "0" -> 0 [] c = "1" -> 1 [] c = "2" -> 2 [] c = "3" -> 3
    [] c = "4" -> 4 [] c = "5" -> 5 [] c = "6" -> 6 [] c = "7" -> 7
    [] c = "8" -> 8 [] c = "9" -> 9

Whitespace == {" ", "\t"}

\* String.prototype.trim() is only used to test a line for blankness
IsBlank(line) == \A i \in 1..Len(line) : line[i] \in Whitespace

\* the length of the longest prefix of s made of digits
RECURSIVE DigitPrefixLen(_)
DigitPrefixLen(s) ==
  IF s = <<>> \/ Head(s) \notin Digits THEN 0 ELSE 1 + DigitPrefixLen(Tail(s))

RECURSIVE DigitsValue(_, _)
DigitsValue(s, n) ==
  IF n = 0 THEN 0 ELSE DigitsValue(s, n - 1) * 10 + DigitVal(s[n])

RECURSIVE SkipWhitespace(_)
SkipWhitespace(s) ==
  IF s # <<>> /\ Head(s) \in Whitespace THEN SkipWhitespace(Tail(s)) ELSE s

\* parseInt(s, 10): leading whitespace is skipped, the longest digit prefix
\* is read and what follows it is ignored; NaN when there is no digit.
\* (The strings of this model carry no sign.)
ParseInt(s) ==
  LET t == SkipWhitespace(s)
      n == DigitPrefixLen(t)
  IN IF n = 0 THEN NaN ELSE DigitsValue(t, n)

\* parseFloat(s) on strings without '.', exponent or sign reads the same
\* digit prefix
ParseFloat(s) ==
  LET t == SkipWhitespace(s)
      n == DigitPrefixLen(t)
  IN IF n = 0 THEN NaN ELSE DigitsValue(t, n)

\* s.split(sep) for a one-character separator: always at least one field
RECURSIVE Split(_, _)
Split(s, sep) ==
  IF \A i \in 1..Len(s) : s[i] # sep
  THEN <<s>>
  ELSE LET k == CHOOSE i \in 1..Len(s) :
                  s[i] = sep /\ \A j \in 1..(i - 1) : s[j] # sep
       IN <<SubSeq(s, 1, k - 1)>> \o Split(SubSeq(s, k + 1, Len(s)), sep)

\* obj[key] = value on a table
Put(table, key, value) ==
  [k \in DOMAIN table \cup {key} |-> IF k = key THEN value ELSE table[k]]

EmptyTable == [k \in {} |-> 0]

\* obj[key] !== undefined
Has(table, key) == key \in DOMAIN table

\* ---------------------------------------------------------------- data.js
\* parseItemData: the loop body for one line, applied to the accumulated
\* movies array and movieIndexById table
ItemLineStep(acc, line) ==
  IF IsBlank(line) THEN acc
  ELSE LET fields == Split(line, "|")
       IN IF Len(fields) < 2 THEN acc
          ELSE LET id == ParseInt(fields[1])
                   title == fields[2]
                   index == Len(acc.movies)
               IN [movies |-> Append(acc.movies,
                                [id |-> id, title |-> title,
                                 hasGenres |-> FALSE, genres |-> <<>>]),
                   movieIndexById |-> Put(acc.movieIndexById, id, index)]

RECURSIVE ItemLoop(_, _)
ItemLoop(acc, lines) ==
  IF lines = <<>> THEN acc
  ELSE ItemLoop(ItemLineStep(acc, Head(lines)), Tail(lines))

parseItemData(text) ==
  LET r == ItemLoop([movies |-> <<>>, movieIndexById |-> EmptyTable], text)
  IN [movies |-> r.movies,
      movieIndexById |-> r.movieIndexById,
      numMovies |-> Len(r.movies)]

\* parseRatingData, first loop: the body for one line
RatingLineStep(acc, line) ==
  IF IsBlank(line) THEN acc
  ELSE LET fields == Split(line, "\t")
       IN IF Len(fields) < 3 THEN acc
          ELSE LET userId == ParseInt(fields[1])
                   movieId == ParseInt(fields[2])
                   rating == ParseFloat(fields[3])
               IN IF IsNaN(userId) \/ IsNaN(movieId) \/ IsNaN(rating)
                  THEN acc
                  ELSE [userIdSet |-> acc.userIdSet \cup {userId},
                        ratings |-> Append(acc.ratings,
                                     [userId |-> userId, movieId |-> movieId,
                                      rating |-> rating])]

RECURSIVE RatingLoop(_, _)
RatingLoop(acc, lines) ==
  IF lines = <<>> THEN acc
  ELSE RatingLoop(RatingLineStep(acc, Head(lines)), Tail(lines))

\* Array.from(set).sort((a, b) => a - b)
RECURSIVE SortAscending(_)
SortAscending(S) ==
  IF S = {} THEN <<>>
  ELSE LET m == CHOOSE x \in S : \A y \in S : x <= y
       IN <<m>> \o SortAscending(S \ {m})

\* an index table that counts from one
IndexUsersFromOne(ids) ==
  [id \in {ids[i] : i \in 1..Len(ids)} |->
     CHOOSE i \in 1..Len(ids) : ids[i] = id]

\* userIds.forEach((id, index) => { userIndexById[id] = index; })
IndexUsers(ids) ==
  [id \in {ids[i] : i \in 1..Len(ids)} |->
     (CHOOSE i \in 1..Len(ids) : ids[i] = id) - 1]

\* ratings.map(attach indices).filter(both indices defined)
RECURSIVE AttachIndices(_, _, _)
AttachIndices(rs, uIdx, mIdx) ==
  IF rs = <<>> THEN <<>>
  ELSE LET e == Head(rs)
           rest == AttachIndices(Tail(rs), uIdx, mIdx)
       IN IF Has(uIdx, e.userId) /\ Has(mIdx, e.movieId)
          THEN <<[userId |-> e.userId, movieId |-> e.movieId,
                  rating |-> e.rating,
                  userIndex |-> uIdx[e.userId],
                  movieIndex |-> mIdx[e.movieId]]>> \o rest
          ELSE rest

parseRatingData(text, mIdx) ==
  LET r == RatingLoop([userIdSet |-> {}, ratings |-> <<>>], text)
      ids == SortAscending(r.userIdSet)
      uIdx == IndexUsers(ids)
  IN [ratings |-> AttachIndices(r.ratings, uIdx, mIdx),
      userIds |-> ids,
      userIndexById |-> uIdx,
      numUsers |-> Len(ids)]


\* ------------------------------------------------------------------ state
VARIABLES
  movies, ratings, userIds, numUsers, numMovies,   \* data.js globals
  userIndexById, movieIndexById,
  model, isModelReady,                             \* script.js globals
  loadPc,       \* "idle", or "fetch": loadData is awaiting its two fetches
  onloadPc,     \* position of the window.onload handler
  fits,         \* the model.fit calls in flight: [m: model id, epoch: done]
  everTrained,  \* history: some trainModel run has run to completion
  timers,       \* pending setTimeout callbacks of getRecommendations
  out           \* what the last step reported (DOM text, thrown error)

tables == <<movies, ratings, userIds, numUsers, numMovies,
            userIndexById, movieIndexById>>

vars == <<movies, ratings, userIds, numUsers, numMovies,
          userIndexById, movieIndexById, model, isModelReady,
          loadPc, onloadPc, fits, everTrained, timers, out>>

NoMovie == [id |-> NaN, title |-> <<>>, hasGenres |-> FALSE, genres |-> <<>>]

NoModel == [id |-> 0, userDim |-> 0, movieDim |-> 0]

NoOut ==
  [op |-> "none", outcome |-> "none",
   userId |-> NaN, movieId |-> NaN, raw |-> NaN, rating |-> NaN,
   invoked |-> FALSE,
   itemOk |-> FALSE, ratingOk |-> FALSE, itemText |-> <<>>, ratingText |-> <<>>,
   liked |-> NoMovie, scored |-> <<>>, recs |-> <<>>]

Init ==
  /\ movies = <<>>
  /\ ratings = <<>>
  /\ userIds = <<>>
  /\ numUsers = 0
  /\ numMovies = 0
  /\ userIndexById = EmptyTable
  /\ movieIndexById = EmptyTable
  /\ model = NoModel
  /\ isModelReady = FALSE
  /\ loadPc = "idle"
  /\ onloadPc = "init"
  /\ fits = {}
  /\ everTrained = FALSE
  /\ timers = <<>>
  /\ out = NoOut

\* the continuation of window.onload after `await loadData()` runs before
\* any other task of the event loop
NoMicrotaskPending == onloadPc # "loaded"

\* -------------------------------------------------------- data.js loadData
\* loadData up to its first await: the reset of the shared state
ResetTables ==
  /\ movies' = <<>>
  /\ ratings' = <<>>
  /\ userIds' = <<>>
  /\ numUsers' = 0
  /\ numMovies' = 0
  /\ userIndexById' = EmptyTable
  /\ movieIndexById' = EmptyTable

loadDataStart ==
  /\ NoMicrotaskPending
  /\ loadPc = "idle"
  /\ ResetTables
  /\ loadPc' = "fetch"
  /\ out' = [NoOut EXCEPT !.op = "loadDataStart"]
  /\ UNCHANGED <<model, isModelReady, onloadPc, fits, everTrained, timers>>

\* a loadData that does not look at the response for u.data
LoadOutcomeItemOnly(itemOk, ratingOk) ==
  IF ~itemOk THEN "LoadError" ELSE "ok"

\* the outcome of loadData given the two responses: "LoadError" is the
\* rethrown error, "ok" the normal completion
LoadOutcome(itemOk, ratingOk) ==
  IF ~itemOk THEN "LoadError"
  ELSE IF ~ratingOk THEN "LoadError"
  ELSE "ok"

\* loadData from the resolution of its fetches to its completion; the texts
\* are read only when both responses are ok
loadDataFinish(itemOk, ratingOk, itemText, ratingText) ==
  /\ loadPc = "fetch"
  /\ loadPc' = "idle"
  /\ LET res == LoadOutcome(itemOk, ratingOk)
         it == parseItemData(itemText)
         rt == parseRatingData(ratingText, it.movieIndexById)
     IN /\ IF res = "ok"
           THEN /\ movies' = it.movies
                /\ movieIndexById' = it.movieIndexById
                /\ numMovies' = it.numMovies
                /\ ratings' = rt.ratings
                /\ userIds' = rt.userIds
                /\ userIndexById' = rt.userIndexById
                /\ numUsers' = rt.numUsers
           ELSE UNCHANGED tables
        /\ out' = [NoOut EXCEPT !.op = "loadData", !.outcome = res,
                     !.itemOk = itemOk, !.ratingOk = ratingOk,
                     !.itemText = IF res = "ok" THEN itemText ELSE <<>>,
                     !.ratingText = IF res = "ok" THEN ratingText ELSE <<>>]
        /\ onloadPc' = IF onloadPc = "loading"
                       THEN (IF res = "ok" THEN "loaded" ELSE "failed")
                       ELSE onloadPc
  /\ UNCHANGED <<model, isModelReady, fits, everTrained, timers>>


\* ------------------------------------------------- script.js, the trainer
epochs == 6

ModelIds == 1..NumModelIds

\* createModel: a fresh model object; its embedding tables have
\* inputDim = count + 1 rows
createModel(id, numUsersValue, numMoviesValue) ==
  [id |-> id, userDim |-> numUsersValue + 1, movieDim |-> numMoviesValue + 1]

\* an identity for a newly allocated model object: not that of the object
\* `model` refers to, nor of one a running fit still refers to
FreshIds == {m \in ModelIds : m # model.id /\ \A f \in fits : f.m # m}

\* a trainModel that leaves the flag as it was on entry
ReadyOnEntryKept(ready) == ready

\* the flag assignment on entry of trainModel
ReadyOnEntry(ready) == FALSE

\* a trainModel that never finds the ratings empty
RatingsEmptyNever(rs) == FALSE

\* ratings.length === 0
RatingsEmpty(rs) == Len(rs) = 0

\* the flag assignment at the end of trainModel
ReadyOnExit(ready) == TRUE

\* trainModel up to `await model.fit(...)`: the flag is cleared, an empty
\* ratings array throws, otherwise a new model is built and its fit started
TrainModelCall ==
  /\ isModelReady' = ReadyOnEntry(isModelReady)
  /\ IF RatingsEmpty(ratings)
     THEN /\ out' = [NoOut EXCEPT !.op = "trainModel", !.outcome = "TrainError"]
          /\ UNCHANGED <<model, fits>>
     ELSE /\ FreshIds # {}
          /\ LET id == CHOOSE m \in FreshIds : \A k \in FreshIds : m <= k
             IN /\ model' = createModel(id, numUsers, numMovies)
                /\ fits' = fits \cup {[m |-> id, epoch |-> 0]}
          /\ out' = [NoOut EXCEPT !.op = "trainModel", !.outcome = "fitting"]
  /\ UNCHANGED <<tables, loadPc, everTrained, timers>>

\* a trainModel call from outside window.onload; runs do not overlap
trainModel ==
  /\ NoMicrotaskPending
  /\ onloadPc # "loading"
  /\ fits = {}
  /\ TrainModelCall
  /\ UNCHANGED onloadPc

\* a trainModel call made while an earlier run is suspended inside its
\* model.fit: nothing in trainModel tests for a run in flight
trainModelAgain ==
  /\ NoMicrotaskPending
  /\ fits # {}
  /\ TrainModelCall
  /\ UNCHANGED onloadPc

\* onEpochEnd: one more epoch is done and the run yields to the event loop
epochEnd(f) ==
  /\ NoMicrotaskPending
  /\ f \in fits
  /\ f.epoch < epochs
  /\ fits' = (fits \ {f}) \cup {[f EXCEPT !.epoch = f.epoch + 1]}
  /\ out' = [NoOut EXCEPT !.op = "epochEnd"]
  /\ UNCHANGED <<tables, model, isModelReady, loadPc, onloadPc, everTrained,
                 timers>>

\* model.fit resolves after the last epoch and trainModel runs to its end
fitResolve(f) ==
  /\ NoMicrotaskPending
  /\ f \in fits
  /\ f.epoch = epochs
  /\ fits' = fits \ {f}
  /\ isModelReady' = ReadyOnExit(isModelReady)
  /\ everTrained' = TRUE
  /\ onloadPc' = IF onloadPc = "training" THEN "done" ELSE onloadPc
  /\ out' = [NoOut EXCEPT !.op = "trainModelEnd", !.outcome = "trained"]
  /\ UNCHANGED <<tables, model, loadPc, timers>>

\* model.fit rejects: trainModel throws at its await, the flag stays cleared
fitReject(f) ==
  /\ NoMicrotaskPending
  /\ f \in fits
  /\ fits' = fits \ {f}
  /\ onloadPc' = IF onloadPc = "training" THEN "failed" ELSE onloadPc
  /\ out' = [NoOut EXCEPT !.op = "trainModelEnd", !.outcome = "FitError"]
  /\ UNCHANGED <<tables, model, isModelReady, loadPc, everTrained, timers>>

\* ------------------------------------------- script.js, window.onload (MF)
onloadStart ==
  /\ onloadPc = "init"
  /\ loadPc = "idle"
  /\ fits = {}
  /\ ResetTables
  /\ loadPc' = "fetch"
  /\ onloadPc' = "loading"
  /\ out' = [NoOut EXCEPT !.op = "loadDataStart"]
  /\ UNCHANGED <<model, isModelReady, fits, everTrained, timers>>

\* the continuation after `await loadData()`: trainModel is called
onloadTrain ==
  /\ onloadPc = "loaded"
  /\ TrainModelCall
  /\ onloadPc' = IF RatingsEmpty(ratings) THEN "failed" ELSE "training"

\* ----------------------------------------------- script.js, the predictor
MathMax(a, b) == IF IsNaN(a) \/ IsNaN(b) THEN NaN ELSE IF a >= b THEN a ELSE b

MathMin(a, b) == IF IsNaN(a) \/ IsNaN(b) THEN NaN ELSE IF a <= b THEN a ELSE b

\* a clamp that forgets the upper end of the range
ClampLowerOnly(rawRating) == MathMax(1, rawRating)

\* Math.min(5, Math.max(1, rawRating))
Clamp(rawRating) == MathMin(5, MathMax(1, rawRating))

\* !model || !isModelReady
NotReady(m, ready) == m = NoModel \/ ~ready

\* a lookup check that forgets the movie
MissingUserOnly(userId, movieId) == ~Has(userIndexById, userId)

\* userIndex === undefined || movieIndex === undefined
Missing(userId, movieId) ==
  ~Has(userIndexById, userId) \/ ~Has(movieIndexById, movieId)

\* predictRating with the values of the two dropdowns; raw is what the
\* forward pass of the model returns when it is run
predictRating(userSel, movieSel, raw) ==
  /\ NoMicrotaskPending
  /\ LET userId == ParseInt(userSel)
         movieId == ParseInt(movieSel)
         o == [NoOut EXCEPT !.op = "predictRating"]
     IN out' =
          IF NotReady(model, isModelReady)
          THEN [o EXCEPT !.outcome = "NotReady"]
          ELSE IF IsNaN(userId) \/ IsNaN(movieId)
          THEN [o EXCEPT !.outcome = "NoSelection",
                         !.userId = userId, !.movieId = movieId]
          ELSE IF Missing(userId, movieId)
          THEN [o EXCEPT !.outcome = "NotFound",
                         !.userId = userId, !.movieId = movieId]
          ELSE [o EXCEPT !.outcome = "Rating",
                         !.userId = userId, !.movieId = movieId,
                         !.invoked = TRUE, !.raw = raw,
                         !.rating = Clamp(raw)]
  /\ UNCHANGED <<tables, model, isModelReady, loadPc, onloadPc, fits,
                 everTrained, timers>>


\* ------------------------------------------- script.js, the recommender
\* new Set(movie.genres): the empty set when the movie has no genres field
GenreSet(movie) ==
  IF movie.hasGenres
  THEN {movie.genres[i] : i \in 1..Len(movie.genres)}
  ELSE {}

RECURSIVE GCD(_, _)
GCD(a, b) == IF b = 0 THEN a ELSE GCD(b, a % b)

\* A score is a number intersectionSize / sqrt(sizeA * sizeB) in [0, 1]; it
\* is represented by its square, the fraction n / d in lowest terms, so that
\* equal scores are equal records and the order of scores is that of the
\* squares.  The value NaN (0 / 0) is the record ScoreNaN.
ScoreZero == [n |-> 0, d |-> 1]

ScoreNaN == [n |-> 0, d |-> 0]

\* intersectionSize / denom, given the square of denom.  An intersection is
\* no larger than either set, so a zero denominator comes with a zero
\* numerator: 0 / 0
Divide(intersectionSize, denomSq) ==
  IF denomSq = 0 THEN ScoreNaN
  ELSE IF intersectionSize = 0 THEN ScoreZero
  ELSE LET g == GCD(intersectionSize * intersectionSize, denomSq)
       IN [n |-> (intersectionSize * intersectionSize) \div g,
           d |-> denomSq \div g]

\* the score without the test of the denominator
CosineUnguarded(likedGenres, candidateGenres) ==
  Divide(Cardinality(likedGenres \cap candidateGenres),
         Cardinality(likedGenres) * Cardinality(candidateGenres))

\* denom > 0 ? intersectionSize / denom : 0
Cosine(likedGenres, candidateGenres) ==
  LET intersectionSize == Cardinality(likedGenres \cap candidateGenres)
      denomSq == Cardinality(likedGenres) * Cardinality(candidateGenres)
  IN IF denomSq > 0
     THEN Divide(intersectionSize, denomSq)
     ELSE ScoreZero

ScoreLess(x, y) == x.n * y.d < y.n * x.d

\* the comparator with its operands swapped: a.score - b.score
CompareAscending(a, b) ==
  IF ScoreLess(a.score, b.score) THEN -1
  ELSE IF ScoreLess(b.score, a.score) THEN 1
  ELSE 0

\* the sign of the comparator (a, b) => b.score - a.score
Compare(a, b) ==
  IF ScoreLess(b.score, a.score) THEN -1
  ELSE IF ScoreLess(a.score, b.score) THEN 1
  ELSE 0

\* movies.find(movie => movie.id === selectedMovieId): the 1-based position
\* of the first match, 0 when there is none
Find(ms, id) ==
  IF \E i \in 1..Len(ms) : StrictEq(ms[i].id, id)
  THEN CHOOSE i \in 1..Len(ms) :
         /\ StrictEq(ms[i].id, id)
         /\ \A j \in 1..(i - 1) : ~StrictEq(ms[j].id, id)
  ELSE 0

\* a filter that drops the selected entry itself (movie !== likedMovie)
\* instead of every entry with its id
IsCandidateByEntry(movie, likedMovie) == movie # likedMovie

\* the filter predicate movie.id !== likedMovie.id
IsCandidate(movie, likedMovie) == ~StrictEq(movie.id, likedMovie.id)

\* movies.filter(...).map(candidate => ({ ...candidate, score }))
RECURSIVE ScoredCandidates(_, _)
ScoredCandidates(ms, likedMovie) ==
  IF ms = <<>> THEN <<>>
  ELSE LET c == Head(ms)
           rest == ScoredCandidates(Tail(ms), likedMovie)
       IN IF IsCandidate(c, likedMovie)
          THEN <<[id |-> c.id, title |-> c.title, hasGenres |-> c.hasGenres,
                  genres |-> c.genres,
                  score |-> Cosine(GenreSet(likedMovie), GenreSet(c))]>>
               \o rest
          ELSE rest

\* Array.prototype.sort is stable: an element goes after every element the
\* comparator does not put behind it
RECURSIVE InsertSorted(_, _)
InsertSorted(sorted, x) ==
  IF sorted = <<>> THEN <<x>>
  ELSE IF Compare(Head(sorted), x) <= 0
       THEN <<Head(sorted)>> \o InsertSorted(Tail(sorted), x)
       ELSE <<x>> \o sorted

RECURSIVE SortByScore(_)
SortByScore(arr) ==
  IF arr = <<>> THEN <<>>
  ELSE InsertSorted(SortByScore(SubSeq(arr, 1, Len(arr) - 1)), arr[Len(arr)])

\* arr.slice(0, 2)
TopSlice(arr) == SubSeq(arr, 1, IF Len(arr) < 2 THEN Len(arr) ELSE 2)

\* getRecommendations up to setTimeout: the selection is read and looked up
getRecommendations(sel) ==
  /\ NoMicrotaskPending
  /\ LET selectedMovieId == ParseInt(sel)
         pos == Find(movies, selectedMovieId)
         o == [NoOut EXCEPT !.op = "getRecommendations"]
     IN IF IsNaN(selectedMovieId)
        THEN /\ out' = [o EXCEPT !.outcome = "NoSelection"]
             /\ UNCHANGED timers
        ELSE IF pos = 0
        THEN /\ out' = [o EXCEPT !.outcome = "NotFound"]
             /\ UNCHANGED timers
        ELSE /\ Len(timers) < MaxTimers
             /\ timers' = Append(timers, movies[pos])
             /\ out' = [o EXCEPT !.outcome = "calculating",
                                 !.liked = movies[pos]]
  /\ UNCHANGED <<tables, model, isModelReady, loadPc, onloadPc, fits,
                 everTrained>>

\* the setTimeout callback: score, sort, keep the top two, render
recommendTimer ==
  /\ NoMicrotaskPending
  /\ timers # <<>>
  /\ LET likedMovie == Head(timers)
         scoredMovies == ScoredCandidates(movies, likedMovie)
         top == TopSlice(SortByScore(scoredMovies))
     IN out' = [NoOut EXCEPT !.op = "recommend",
                  !.outcome = IF Len(top) > 0 THEN "recommended" ELSE "empty",
                  !.liked = likedMovie, !.scored = scoredMovies,
                  !.recs = top]
  /\ timers' = Tail(timers)
  /\ UNCHANGED <<tables, model, isModelReady, loadPc, onloadPc, fits,
                 everTrained>>


\* ----------------------------------------------------------------- inputs
SeqsUpTo(S, n) == UNION {[1..k -> S] : k \in 0..n}

\* lines of u.item: "1|A", "2|B", "1|C" (a repeated id), "x|D" (an id that
\* does not parse), "1" (one column) and the blank line
ItemLinePool ==
  { <<"1", "|", "A">>, <<"2", "|", "B">>, <<"1", "|", "C">>,
    <<"x", "|", "D">>, <<"1">>, <<>> }

\* lines of u.data: "2<tab>1<tab>5", "1<tab>2<tab>4", and lines with a user
\* id, a movie id or a rating that does not parse, or with two columns
RatingLinePool ==
  { <<"2", "\t", "1", "\t", "5">>, <<"1", "\t", "2", "\t", "4">>,
    <<"x", "\t", "1", "\t", "3">>, <<"1", "\t", "x", "\t", "3">>,
    <<"1", "\t", "1", "\t", "x">>, <<"1", "\t", "1">> }

ItemTexts == SeqsUpTo(ItemLinePool, MaxItemLines)

RatingTexts == SeqsUpTo(RatingLinePool, MaxRatingLines)

\* the files served to the trainer and predictor
ItemTextsMain ==
  { << <<"1", "|", "A">> >>,
    << <<"1", "|", "A">>, <<"2", "|", "B">> >> }

RatingTextsMain ==
  { <<>>,
    << <<"2", "\t", "1", "\t", "5">> >>,
    << <<"2", "\t", "1", "\t", "5">>, <<"1", "\t", "2", "\t", "4">> >> }

\* values of a dropdown: the placeholder "" and the options "1", "2", "3"
SelectValues == { <<>>, <<"1">>, <<"2">>, <<"3">> }

\* values a forward pass can return: below, inside and above the star
\* range, and NaN
RawOutputs == {-40, 0, 1, 3, 5, 6, 70, NaN}

\* the raw outputs used where runs overlap: one inside, one above the range
RawOutputsOverlap == {3, 70}

\* ---------------------------------------------------------- specifications
\* the loader alone, on every text of the pools
LoadNext ==
  \/ loadDataStart
  \/ \E itemOk \in BOOLEAN, ratingOk \in BOOLEAN :
       /\ ~(itemOk /\ ratingOk)
       /\ loadDataFinish(itemOk, ratingOk, <<>>, <<>>)
  \/ /\ loadPc = "fetch"
     /\ \E itemText \in ItemTexts, ratingText \in RatingTexts :
          loadDataFinish(TRUE, TRUE, itemText, ratingText)

SpecLoad == Init /\ [][LoadNext]_vars

\* page load, loading, training (one run at a time) and prediction
Next ==
  \/ onloadStart
  \/ loadDataStart
  \/ \E itemOk \in BOOLEAN, ratingOk \in BOOLEAN :
       /\ ~(itemOk /\ ratingOk)
       /\ loadDataFinish(itemOk, ratingOk, <<>>, <<>>)
  \/ /\ loadPc = "fetch"
     /\ \E itemText \in ItemTextsMain, ratingText \in RatingTextsMain :
          loadDataFinish(TRUE, TRUE, itemText, ratingText)
  \/ onloadTrain
  \/ trainModel
  \/ \E f \in fits : epochEnd(f)
  \/ \E f \in fits : fitResolve(f)
  \/ \E f \in fits : fitReject(f)
  \/ \E userSel \in SelectValues, movieSel \in SelectValues,
        raw \in RawOutputs :
       predictRating(userSel, movieSel, raw)

Spec == Init /\ [][Next]_vars

\* the same, with trainModel also called while a run is in flight
NextOverlap ==
  \/ onloadStart
  \/ loadDataStart
  \/ \E itemOk \in BOOLEAN, ratingOk \in BOOLEAN :
       /\ ~(itemOk /\ ratingOk)
       /\ loadDataFinish(itemOk, ratingOk, <<>>, <<>>)
  \/ /\ loadPc = "fetch"
     /\ \E itemText \in ItemTextsMain, ratingText \in RatingTextsMain :
          loadDataFinish(TRUE, TRUE, itemText, ratingText)
  \/ onloadTrain
  \/ trainModel
  \/ trainModelAgain
  \/ \E f \in fits : epochEnd(f)
  \/ \E f \in fits : fitResolve(f)
  \/ \E f \in fits : fitReject(f)
  \/ \E userSel \in SelectValues, movieSel \in SelectValues,
        raw \in RawOutputsOverlap :
       predictRating(userSel, movieSel, raw)

SpecOverlap == Init /\ [][NextOverlap]_vars


\* the recommender alone.  Its page (the second window.onload of script.js)
\* loads a movie list whose entries may carry a genres array, which the
\* recommender reads; the lists below are the loaded lists it is run on.
TitleChars == <<"1", "2", "3", "4", "5", "6", "7", "8", "9">>

\* a title that tells the entries of a list apart
TitleOf(i) == <<"T", TitleChars[i]>>

\* id and genres of an entry: no genres field, an empty array, one genre,
\* two genres; ids repeat, and NaN is the id of a row whose id did not parse
MovieKinds ==
  { [id |-> 1, hasGenres |-> FALSE, genres |-> <<>>],
    [id |-> 1, hasGenres |-> TRUE, genres |-> <<"Comedy">>],
    [id |-> 1, hasGenres |-> TRUE, genres |-> <<"Comedy", "Drama">>],
    [id |-> 2, hasGenres |-> TRUE, genres |-> <<>>],
    [id |-> 2, hasGenres |-> TRUE, genres |-> <<"Comedy">>],
    [id |-> 2, hasGenres |-> TRUE, genres |-> <<"Comedy", "Drama">>],
    [id |-> NaN, hasGenres |-> TRUE, genres |-> <<"Drama">>] }

MovieLists ==
  { [i \in 1..Len(ks) |->
       [id |-> ks[i].id, title |-> TitleOf(i),
        hasGenres |-> ks[i].hasGenres, genres |-> ks[i].genres]] :
    ks \in SeqsUpTo(MovieKinds, MaxMovies) }

\* movieIndexById as the loader's loop leaves it: the last index of each id
IndexMovies(ms) ==
  [id \in {ms[i].id : i \in 1..Len(ms)} |->
     (CHOOSE i \in 1..Len(ms) :
        ms[i].id = id /\ \A j \in (i + 1)..Len(ms) : ms[j].id # id) - 1]

InitRec ==
  /\ movies \in MovieLists
  /\ numMovies = Len(movies)
  /\ movieIndexById = IndexMovies(movies)
  /\ ratings = <<>>
  /\ userIds = <<>>
  /\ numUsers = 0
  /\ userIndexById = EmptyTable
  /\ model = NoModel
  /\ isModelReady = FALSE
  /\ loadPc = "idle"
  /\ onloadPc = "done"
  /\ fits = {}
  /\ everTrained = FALSE
  /\ timers = <<>>
  /\ out = NoOut

RecNext ==
  \/ \E sel \in SelectValues : getRecommendations(sel)
  \/ recommendTimer

SpecRec == InitRec /\ [][RecNext]_vars


\* ================================================================= claims
\* ------------------------------------------------------------------- C1
\* C1: a predictRating call made while no trainModel run has completed yet,
\* or while a run is between its start and its completion (its fit is in
\* flight, at any epoch), reports not-ready, produces no rating and does not
\* run the model.
C1_NotReadyUntilTrained ==
  (out.op = "predictRating" /\ (~everTrained \/ fits # {})) =>
    /\ out.outcome = "NotReady"
    /\ ~out.invoked
    /\ IsNaN(out.rating)

\* a prediction attempted at an epoch yield of a second training run, after
\* a first run had completed
C1_Witness ==
  /\ out.op = "predictRating"
  /\ out.outcome = "NotReady"
  /\ everTrained
  /\ \E f \in fits : f.epoch >= 1 /\ f.m = model.id

\* ------------------------------------------------------------------- C2
\* C2: whenever predictRating produces a rating for a pair present in both
\* remap tables, the rating lies in [1, 5], for a raw model output below 1,
\* inside the range or above 5.
C2_RatingClamped ==
  ( /\ out.op = "predictRating"
    /\ out.outcome = "Rating"
    /\ Has(userIndexById, out.userId)
    /\ Has(movieIndexById, out.movieId)
    /\ ~IsNaN(out.raw) ) =>
    (1 <= out.rating /\ out.rating <= 5)

\* a rating produced from a raw output far above the range
C2_Witness ==
  /\ out.op = "predictRating"
  /\ out.outcome = "Rating"
  /\ Has(userIndexById, out.userId)
  /\ Has(movieIndexById, out.movieId)
  /\ out.raw = 70
  /\ out.rating = 5

\* ------------------------------------------------------------------- C3
\* C3: when the model is ready and predictRating is called with a user id
\* that is not a key of userIndexById or a movie id that is not a key of
\* movieIndexById, it reports not-found, produces no rating, runs no forward
\* pass and leaves model, isModelReady and the loaded tables unchanged.
C3_NotFound ==
  [][ ( /\ out'.op = "predictRating"
        /\ ~NotReady(model, isModelReady)
        /\ ~IsNaN(out'.userId)
        /\ ~IsNaN(out'.movieId)
        /\ (~Has(userIndexById, out'.userId)
             \/ ~Has(movieIndexById, out'.movieId)) ) =>
      ( /\ out'.outcome = "NotFound"
        /\ ~out'.invoked
        /\ IsNaN(out'.rating)
        /\ UNCHANGED <<model, isModelReady, tables>> ) ]_vars

\* a ready model asked about a known user and an unknown movie
C3_Witness ==
  /\ out.op = "predictRating"
  /\ out.outcome = "NotFound"
  /\ isModelReady
  /\ Has(userIndexById, out.userId)
  /\ ~Has(movieIndexById, out.movieId)

\* ------------------------------------------------------------------- C6
\* C6: a trainModel call that finds the ratings empty fails with the
\* empty-training-set error without building a model or starting a fit and
\* leaves isModelReady false; the flag then becomes true only by a training
\* run that completes, and until then every predictRating reports not-ready.
C6_EmptyTrainingSet ==
  [][ /\ (out'.op = "trainModel" /\ Len(ratings') = 0) =>
           ( /\ out'.outcome = "TrainError"
             /\ model' = model
             /\ fits' = fits
             /\ ~isModelReady' )
      /\ (~isModelReady /\ isModelReady') =>
           (out'.op = "trainModelEnd" /\ out'.outcome = "trained")
      /\ (out'.op = "predictRating" /\ ~isModelReady') =>
           out'.outcome = "NotReady" ]_vars

\* a retraining attempt on a reload that kept no rating, with the model of
\* an earlier successful run still in place
C6_Witness ==
  /\ out.op = "trainModel"
  /\ out.outcome = "TrainError"
  /\ Len(ratings) = 0
  /\ everTrained
  /\ model # NoModel
  /\ ~isModelReady


\* ------------------------------------------------------------------- C4
\* C4: after parseItemData, movieIndexById is a bijection between the loaded
\* movie ids and the indices 0..numMovies-1: its keys are the ids of movies,
\* and every index below numMovies is the image of exactly one id.
C4_IndexBijection ==
  /\ DOMAIN movieIndexById = {movies[i].id : i \in 1..Len(movies)}
  /\ \A i \in 0..(numMovies - 1) :
       Cardinality({k \in DOMAIN movieIndexById : movieIndexById[k] = i}) = 1

\* ------------------------------------------------------------------- C5
\* C5: every entry of ratings carries indices inside [0, numUsers) and
\* [0, numMovies) that are those of the two tables of the same load and that
\* lead back to its user id in userIds and to its movie id in movies.
C5_RatingIndicesResolve ==
  \A k \in 1..Len(ratings) :
    LET r == ratings[k]
    IN /\ 0 <= r.userIndex /\ r.userIndex < numUsers
       /\ 0 <= r.movieIndex /\ r.movieIndex < numMovies
       /\ Has(userIndexById, r.userId)
       /\ userIndexById[r.userId] = r.userIndex
       /\ Has(movieIndexById, r.movieId)
       /\ movieIndexById[r.movieId] = r.movieIndex
       /\ At(userIds, r.userIndex) = r.userId
       /\ At(movies, r.movieIndex).id = r.movieId

\* a load with two users, listed in the file in descending order, and a
\* rating of a movie whose id the item file repeats
C5_Witness ==
  /\ out.op = "loadData"
  /\ Len(userIds) = 2
  /\ Len(ratings) >= 1
  /\ ratings[1].userIndex = 1
  /\ \E i, j \in 1..Len(movies) :
       i # j /\ movies[i].id = ratings[1].movieId
            /\ movies[j].id = ratings[1].movieId

MalformedItemLine(line) ==
  LET fields == Split(line, "|")
  IN Len(fields) < 2 \/ IsNaN(ParseInt(fields[1]))

MalformedRatingLine(line) ==
  LET fields == Split(line, "\t")
  IN \/ Len(fields) < 3
     \/ IsNaN(ParseInt(fields[1]))
     \/ IsNaN(ParseInt(fields[2]))
     \/ IsNaN(ParseFloat(fields[3]))

WellFormedItemLine(line) == ~MalformedItemLine(line)

WellFormedRatingLine(line) == ~MalformedRatingLine(line)

\* C8: loading never fails because of a malformed row, and a malformed row
\* contributes nothing: the tables are those the well-formed rows alone
\* would have produced.
C8_MalformedRowsSkipped ==
  out.op = "loadData" =>
    /\ (out.itemOk /\ out.ratingOk) => out.outcome = "ok"
    /\ out.outcome = "ok" =>
         LET it == parseItemData(SelectSeq(out.itemText, WellFormedItemLine))
             rt == parseRatingData(
                     SelectSeq(out.ratingText, WellFormedRatingLine),
                     it.movieIndexById)
         IN /\ movies = it.movies
            /\ movieIndexById = it.movieIndexById
            /\ numMovies = it.numMovies
            /\ ratings = rt.ratings
            /\ userIds = rt.userIds
            /\ userIndexById = rt.userIndexById
            /\ numUsers = rt.numUsers


\* ------------------------------------------------------------------- C9
\* C9: no entry of the list the recommender produces has the id of the
\* selected reference movie, also when several loaded entries share that id.
C9_ReferenceExcluded ==
  out.op = "recommend" =>
    \A k \in 1..Len(out.recs) : out.recs[k].id # out.liked.id

\* recommendations produced from a list that holds the selected id twice
C9_Witness ==
  /\ out.op = "recommend"
  /\ Len(out.recs) >= 1
  /\ Cardinality({i \in 1..Len(movies) : movies[i].id = out.liked.id}) >= 2

\* ------------------------------------------------------------------ C10
\* the candidates of a reference movie: positions of the loaded list whose
\* entry has another id
CandidatePositions(likedMovie) ==
  {i \in 1..Len(movies) : movies[i].id # likedMovie.id}

\* the position in the loaded list of the entry a recommendation was made of
PositionOf(rec) == CHOOSE i \in 1..Len(movies) : movies[i].title = rec.title

\* C10: the recommender returns min(2, number of candidates) candidates, in
\* non-increasing score order; no candidate left out has a higher score than
\* one returned; and of two candidates of equal score the one earlier in the
\* loaded list is ranked first (returned first, or returned instead of the
\* other).
C10_TopTwoStable ==
  out.op = "recommend" =>
    LET recs == out.recs
        cands == CandidatePositions(out.liked)
        score(i) == Cosine(GenreSet(out.liked), GenreSet(movies[i]))
        returned == {PositionOf(recs[k]) : k \in 1..Len(recs)}
    IN /\ Len(recs) = (IF Cardinality(cands) < 2 THEN Cardinality(cands) ELSE 2)
       /\ \A k \in 1..Len(recs) :
            /\ \E i \in cands : movies[i].title = recs[k].title
            /\ recs[k].id = movies[PositionOf(recs[k])].id
            /\ recs[k].score = score(PositionOf(recs[k]))
       /\ Cardinality(returned) = Len(recs)
       /\ \A k, l \in 1..Len(recs) :
            k < l =>
              /\ ~ScoreLess(recs[k].score, recs[l].score)
              /\ recs[k].score = recs[l].score =>
                   PositionOf(recs[k]) < PositionOf(recs[l])
       /\ \A c \in cands \ returned :
            \A k \in 1..Len(recs) :
              /\ ~ScoreLess(recs[k].score, score(c))
              /\ score(c) = recs[k].score => PositionOf(recs[k]) < c

\* three candidates: the best one is not the first of the list, and the
\* second place is tied between a returned candidate and one left out
C10_Witness ==
  /\ out.op = "recommend"
  /\ Len(out.recs) = 2
  /\ Cardinality(CandidatePositions(out.liked)) = 3
  /\ ScoreLess(out.recs[2].score, out.recs[1].score)
  /\ PositionOf(out.recs[2]) < PositionOf(out.recs[1])
  /\ out.recs[2].score.n > 0
  /\ \E c \in CandidatePositions(out.liked) :
       /\ c > PositionOf(out.recs[2])
       /\ movies[c].title # out.recs[1].title
       /\ Cosine(GenreSet(out.liked), GenreSet(movies[c])) = out.recs[2].score


\* ------------------------------------------------------------------ C11
\* C11: for every pair of reference movie and candidate, when either of the
\* two has no genres field or an empty genres array the computed score is
\* exactly 0; the computation raises no error and no score is NaN.
C11_ZeroOnEmptyGenres ==
  out.op = "recommend" =>
    /\ out.outcome \in {"recommended", "empty"}
    /\ Len(out.scored) = Cardinality(CandidatePositions(out.liked))
    /\ \A k \in 1..Len(out.scored) :
         LET c == out.scored[k]
         IN /\ c.score # ScoreNaN
            /\ c.score.d > 0
            /\ ( \/ ~out.liked.hasGenres \/ out.liked.genres = <<>>
                 \/ ~c.hasGenres \/ c.genres = <<>> ) =>
                 c.score = ScoreZero

\* a reference movie with genres scored against a candidate without a
\* genres field (score 0) and against one that shares a genre (score > 0)
C11_Witness ==
  /\ out.op = "recommend"
  /\ out.liked.hasGenres /\ out.liked.genres # <<>>
  /\ \E k \in 1..Len(out.scored) :
       ~out.scored[k].hasGenres /\ out.scored[k].score = ScoreZero
  /\ \E k \in 1..Len(out.scored) : out.scored[k].score.n > 0


\* ------------------------------------------------------------------ C12
\* C12: under any interleaving of trainModel calls (also one started while
\* another run is suspended at an epoch yield) with predictRating calls,
\* isModelReady is true only when no fit is in flight on the current model,
\* and a prediction that returns a rating did not read a model whose
\* training has not completed.
C12_ReadyOnlyWhenTrained ==
  /\ isModelReady => \A f \in fits : f.m # model.id
  /\ (out.op = "predictRating" /\ out.outcome = "Rating") =>
       \A f \in fits : f.m # model.id

====
